---- MODULE Spec2Model ----
(***************************************************************************)
(* A model of the go-ftp-client: the FTPConnection session, the REPL       *)
(* driver and its command handlers, the keep-alive goroutine(s), the       *)
(* control connection shared between them, and readResponse's framing.     *)
(***************************************************************************)
EXTENDS Integers, Sequences, FiniteSets, TLC

\* ---------------------------------------------------------------- bounds
\* How many times startKeepAlive may run (successful auth commands).
MaxLoops == 2
\* How many replies may be pending, unread, on the control connection.
MaxQueue == 2
\* How many distinct data addresses the server hands out.
NumAddrs == 1
\* How many lines the server sends in a readResponse stream.
MaxLines == 3
\* How many fields the parenthesized payload of a passive-mode reply has.
MaxFields == 7

VARIABLES
    \* FTPConnection (ftp_connection.go:13-22)
    conn,            \* the control socket: "open" | "closed"
    isAuthenticated, \* BOOLEAN
    dataAddr,        \* 0 is the empty string, 1..NumAddrs a decoded host:port
    keepaliveStop,   \* channel id, 0 is nil
    keepaliveDone,   \* channel id, 0 is nil
    \* Go runtime
    chans,           \* channel id -> "open" | "closed"
    loops,           \* keep-alive goroutine k -> [pc, stop, done]
    nLoops,          \* how many goroutines startKeepAlive has spawned
    proc,            \* the process: "running" | "exited" | "panicked"
    \* the foreground goroutine: main -> StartREPL -> handler
    pc,              \* where the driver / handler stands ("eof": at the
                     \* prompt with the input stream at its end)
    resp,            \* the handler's resp: status code of the last reply, 0 is ""
    err,             \* what the handler returned: "nil" or the kind of error
                     \* (a missing-argument error names its handler: each
                     \* has a message of its own)
    warned,          \* the handler printed the WARNING line
    \* the network
    inflight,        \* whose command ("fg" | "ka") each reply not yet read answers
    netUp,           \* the peer is still there
    readFaults,      \* the transport may fail a read that the stream's end
                     \* does not explain (fixed for the whole run)
    peerSilent,      \* the peer is connected but answers nothing any more
    \* the data connection of the current transfer
    dataConn,        \* "none" | "open" | "shut" | "closed"
    addrConsumed,    \* dataAddr was already used by a successful data dial
    \* readResponse on its own (a stream of lines, read line by line)
    stream,          \* the lines the server sends, each ending in "\n"
    rpos,            \* how many lines f.reader has handed out
    rpc,             \* "idle" | "first" | "multi" | "done" | "err"
    code,            \* line[:3] of the first line of a multi-line reply
    fullResponse,    \* the strings.Builder
    \* the address decoders on their own (strings are sequences of characters)
    input,           \* the reply text handed to the decoder
    peer,            \* the host of f.conn.RemoteAddr()
    apc,             \* "idle" | "start" | "pasv" | "epsv": which handler decoded
    result,          \* what the decoder returned: [kind, addr]
    storedAddr       \* conn.dataAddr as text

sessionVars == <<conn, isAuthenticated, dataAddr, keepaliveStop, keepaliveDone>>
runtimeVars == <<chans, loops, nLoops, proc>>
driverVars  == <<pc, resp, err, warned>>
netVars     == <<inflight, netUp>>
envVars     == <<readFaults, peerSilent>>
addrVars    == <<input, peer, apc, result, storedAddr>>
dataVars    == <<dataConn, addrConsumed>>
readVars    == <<stream, rpos, rpc, code, fullResponse>>
vars == <<sessionVars, runtimeVars, driverVars, netVars, envVars, dataVars,
          readVars, addrVars>>

\* ------------------------------------------------------------ vocabulary
\* The keys of commandRegistry.
Commands == {"auth", "pwd", "pasv", "epsv", "list", "cwd", "cdup", "retr",
             "stor", "stat", "size", "quit", "help", "serverhelp"}

\* Status codes a server may answer with: preliminary (150), three success
\* codes (213 file status, 226 closing data connection, 250 file action
\* okay), need-password (331), transfer aborted (426) and a permanent
\* failure (500).
Codes == {150, 213, 226, 250, 331, 426, 500}

LoopIds == 1..MaxLoops
ChanIds == 1..(2 * MaxLoops)
Addrs   == 1..NumAddrs

\* isSuccessResponse with the prefix test forgotten: any non-empty reply.
isSuccessResponse_anyReply(r) == r # 0

\* strings.HasPrefix(response, "2") on a reply that starts with its code.
isSuccessResponse(r) == r # 0 /\ r \div 100 = 2

\* requireAuth returns nil.
requireAuth == isAuthenticated

\* ------------------------------------------------------- control channel
\* fmt.Fprintf(f.conn, "%s\r\n", cmd): the line reaches the server, which
\* will answer it, unless the connection is gone (the write error is
\* dropped by the code) or the peer has fallen silent.
CanWrite == Len(inflight) < MaxQueue
Answering == netUp /\ ~peerSilent /\ conn = "open"
Written(q, who) == IF Answering THEN Append(q, who) ELSE q

\* readResponse as the session sees it: the status code of the next reply,
\* or 0 for an error. It blocks while the peer is up and silent. On a
\* transport with read faults a read may fail with a reply waiting (an
\* error of the reader that is not the end of the stream): the reply then
\* stays unread.
ReadOutcomes ==
    IF conn = "closed" THEN {0}
    ELSE IF inflight # <<>>
         THEN Codes \cup (IF netUp /\ readFaults THEN {0} ELSE {})
    ELSE IF ~netUp THEN {0}
    ELSE {}
AfterRead(r) == IF r # 0 THEN Tail(inflight) ELSE inflight

\* The peer goes away (end of stream, reset): the replies it had already
\* sent still arrive, the others never do.
NetDrop ==
    /\ proc = "running" /\ netUp
    /\ netUp' = FALSE
    /\ \E n \in 0..Len(inflight) : inflight' = SubSeq(inflight, 1, n)
    /\ UNCHANGED <<sessionVars, runtimeVars, driverVars, dataVars, readVars, envVars,
                   addrVars>>

\* ------------------------------------------------------------ keep-alive
NoLoop == [pc |-> "none", stop |-> 0, done |-> 0]

\* startKeepAlive: two fresh channels and a new goroutine.
startKeepAlive ==
    LET k == nLoops + 1 IN
    /\ nLoops' = k
    /\ keepaliveStop' = 2 * k - 1
    /\ keepaliveDone' = 2 * k
    /\ chans' = [chans EXCEPT ![2 * k - 1] = "open", ![2 * k] = "open"]
    /\ loops' = [loops EXCEPT ![k] = [pc |-> "spawned", stop |-> 0, done |-> 0]]

\* The goroutine's deferred close(f.keepaliveDone), on the channel captured
\* when the defer statement ran. Closing a closed channel panics.
LoopExit(k, how) ==
    IF chans[loops[k].done] = "closed"
    THEN /\ proc' = "panicked"
         /\ UNCHANGED <<chans, loops>>
    ELSE /\ chans' = [chans EXCEPT ![loops[k].done] = "closed"]
         /\ loops' = [loops EXCEPT ![k] = [pc |-> how, stop |-> 0, done |-> 0]]
         /\ proc' = proc

\* The goroutine starts: the defer captures f.keepaliveDone, the first
\* select reads f.keepaliveStop.
KeepAliveBegin(k) ==
    /\ proc = "running" /\ loops[k].pc = "spawned"
    /\ loops' = [loops EXCEPT ![k] = [pc |-> "select", stop |-> keepaliveStop,
                                      done |-> keepaliveDone]]
    /\ UNCHANGED <<sessionVars, chans, nLoops, proc, driverVars, netVars,
                   dataVars, readVars, envVars,
                   addrVars>>

\* case <-ticker.C: the probe's command line is written.
KeepAliveTick(k) ==
    /\ proc = "running" /\ loops[k].pc = "select"
    /\ IF isAuthenticated
       THEN /\ CanWrite
            /\ inflight' = Written(inflight, "ka")
            /\ loops' = [loops EXCEPT ![k] = [pc |-> "probe", stop |-> 0,
                                              done |-> loops[k].done]]
       ELSE /\ inflight' = inflight
            /\ loops' = [loops EXCEPT ![k].stop = keepaliveStop]
    /\ UNCHANGED <<sessionVars, chans, nLoops, proc, driverVars, netUp,
                   dataVars, readVars, envVars,
                   addrVars>>

\* The probe's readResponse returns: on any error the goroutine returns,
\* otherwise it prints and selects again. Only err is tested, the reply is
\* printed and dropped.
KeepAliveRead(k) ==
    /\ proc = "running" /\ loops[k].pc = "probe"
    /\ \E failed \in {r = 0 : r \in ReadOutcomes} :
        /\ inflight' = IF failed THEN inflight ELSE Tail(inflight)
        /\ IF failed
           THEN LoopExit(k, "failed")
           ELSE /\ loops' = [loops EXCEPT ![k] = [pc |-> "select",
                                stop |-> keepaliveStop, done |-> loops[k].done]]
                /\ UNCHANGED <<chans, proc>>
    /\ UNCHANGED <<sessionVars, nLoops, driverVars, netUp, dataVars, readVars, envVars,
                   addrVars>>

\* case <-f.keepaliveStop: the stop channel the select waits on is closed.
KeepAliveStopped(k) ==
    /\ proc = "running" /\ loops[k].pc = "select"
    /\ chans[loops[k].stop] = "closed"
    /\ LoopExit(k, "stopped")
    /\ UNCHANGED <<sessionVars, nLoops, driverVars, netVars, dataVars, readVars, envVars,
                   addrVars>>

LoopRunning(k) == loops[k].pc \in {"spawned", "select", "probe"}

\* ------------------------------------------------------------ the driver
\* A handler returns e to StartREPL (cmd.callback has returned).
Return(e) == pc' = "done" /\ err' = e

\* StartREPL reads the welcome message; on an error it returns, main's
\* deferred ftpConn.Close() runs and the process ends.
StartREPL_welcome ==
    /\ proc = "running" /\ pc = "welcome"
    /\ \E r \in ReadOutcomes :
        /\ inflight' = AfterRead(r)
        /\ IF r = 0
           THEN /\ pc' = "ended" /\ conn' = "closed" /\ proc' = "exited"
           ELSE /\ pc' = "prompt" /\ conn' = conn /\ proc' = proc
    /\ UNCHANGED <<isAuthenticated, dataAddr, keepaliveStop, keepaliveDone,
                   chans, loops, nLoops, resp, err, warned,
                   netUp, dataVars, readVars, envVars,
                   addrVars>>

\* A word that is not in the registry: "Unknown command", next prompt.
StartREPL_unknown ==
    /\ proc = "running" /\ pc = "prompt"
    /\ UNCHANGED vars

\* scanner.Scan() returns false at the end of the input: scanner.Text() is
\* empty, nothing is dispatched and the loop prompts and scans again.
StartREPL_eof ==
    /\ proc = "running" /\ pc \in {"prompt", "eof"}
    /\ pc' = "eof"
    /\ UNCHANGED <<sessionVars, runtimeVars, resp, err, warned, netVars,
                   dataVars, readVars, envVars,
                   addrVars>>

\* The callback returned: its error, if any, is printed and the loop goes
\* back to the prompt. The handler's locals (resp, err, dataConn) are gone.
StartREPL_loop ==
    /\ proc = "running" /\ pc = "done"
    /\ pc' = "prompt"
    /\ resp' = 0 /\ err' = "nil" /\ warned' = FALSE
    /\ dataConn' = "none"
    /\ UNCHANGED <<sessionVars, runtimeVars, netVars, addrConsumed, readVars, envVars,
                   addrVars>>

\* scanner.Scan, cleanInput and the registry lookup found the command:
\* cmd.callback(f, args[1:]) is entered from the prompt.
Handler == proc = "running" /\ pc = "prompt"
At(p) == proc = "running" /\ pc = p

\* A handler that fails before it touches the network.
Fail(e) ==
    /\ Return(e)
    /\ UNCHANGED <<sessionVars, runtimeVars, resp, warned,
                   netVars, dataVars, readVars, envVars,
                   addrVars>>

\* A handler whose first network step is to write command line ln.
Send(ln, next) ==
    /\ CanWrite
    /\ inflight' = Written(inflight, "fg")
    /\ pc' = next
    /\ UNCHANGED <<sessionVars, runtimeVars, resp, err, warned,
                   netUp, dataVars, readVars, envVars,
                   addrVars>>

\* ----------------------------------------------------- handleAuthenticate
handleAuthenticate ==
    /\ Handler
    /\ nLoops < MaxLoops
    /\ Send("USER", "auth_user")

handleAuthenticate_user ==
    /\ At("auth_user")
    /\ \E r \in ReadOutcomes :
        /\ resp' = r
        /\ IF r = 0 THEN Return("io") /\ inflight' = AfterRead(r)
           ELSE IF r # 331 THEN Return("status") /\ inflight' = AfterRead(r)
           ELSE /\ pc' = "auth_pass" /\ err' = err
                /\ inflight' = Written(AfterRead(r), "fg")
    /\ UNCHANGED <<sessionVars, runtimeVars, warned, netUp,
                   dataVars, readVars, envVars,
                   addrVars>>

handleAuthenticate_pass ==
    /\ At("auth_pass")
    /\ \E r \in ReadOutcomes :
        /\ resp' = r
        /\ inflight' = AfterRead(r)
        /\ IF r = 0 \/ ~isSuccessResponse(r)
           THEN /\ Return(IF r = 0 THEN "io" ELSE "status")
                /\ UNCHANGED <<sessionVars, chans, loops, nLoops>>
           ELSE /\ isAuthenticated' = TRUE
                /\ startKeepAlive
                /\ Return("nil")
                /\ UNCHANGED <<conn, dataAddr>>
    /\ UNCHANGED <<proc, warned, netUp, dataVars, readVars, envVars,
                   addrVars>>

\* ------------------------------------- single round trip command handlers
\* resp, err := conn.sendCommand(...) has returned; ok says which replies
\* the handler accepts.
RoundTrip(ok) ==
    /\ \E r \in ReadOutcomes :
        /\ resp' = r
        /\ inflight' = AfterRead(r)
        /\ Return(IF r = 0 THEN "io" ELSE IF r \in ok THEN "nil" ELSE "status")
    /\ UNCHANGED <<sessionVars, runtimeVars, warned, netUp,
                   dataVars, readVars, envVars,
                   addrVars>>

SuccessCodes == {r \in Codes : isSuccessResponse(r)}

handlePWD ==
    /\ Handler
    /\ IF ~requireAuth THEN Fail("notauth") ELSE Send("PWD", "pwd_read")

handlePWD_read == At("pwd_read") /\ RoundTrip(SuccessCodes)

handleCdup ==
    /\ Handler
    /\ IF ~requireAuth THEN Fail("notauth") ELSE Send("CDUP", "cdup_read")

handleCdup_read == At("cdup_read") /\ RoundTrip(SuccessCodes)

handleCWD(hasArg) ==
    /\ Handler
    /\ IF ~requireAuth THEN Fail("notauth")
       ELSE IF ~hasArg THEN Fail("noarg_cwd")
       ELSE Send("CWD", "cwd_read")

handleCWD_read == At("cwd_read") /\ RoundTrip(SuccessCodes)

\* handleStat and handleHelp do not call requireAuth.
handleStat ==
    /\ Handler
    /\ Send("STAT", "stat_read")

handleStat_read == At("stat_read") /\ RoundTrip(SuccessCodes)

handleHelp ==
    /\ Handler
    /\ Send("HELP", "help_read")

handleHelp_read == At("help_read") /\ RoundTrip(SuccessCodes)

\* handleHelpMenu prints the registry and returns nil.
handleHelpMenu ==
    /\ Handler
    /\ Fail("nil")

\* The data address test left out.
noDataAddr_unchecked == FALSE

\* conn.dataAddr == ""
noDataAddr == dataAddr = 0

handleSize(hasArg) ==
    /\ Handler
    /\ IF ~hasArg THEN Fail("noarg_size")
       ELSE IF ~requireAuth THEN Fail("notauth")
       ELSE IF noDataAddr THEN Fail("nodata")
       ELSE Send("SIZE", "size_read")

handleSize_read == At("size_read") /\ RoundTrip({213})

\* ----------------------------------------------------- handlePasv / Epsv
\* A failed negotiation that forgets the address stored before.
dataAddrOnError_forgotten(old) == old - old

\* handlePasv / handleEpsv return their error before conn.dataAddr = addr:
\* the field keeps the value it had.
dataAddrOnError(old) == old

\* The reply was read; a success reply is decoded (parseAddr or
\* parseEPSVAddr: a = 0 is a decode error) and the address stored.
Negotiate ==
    /\ \E r \in ReadOutcomes :
        /\ resp' = r
        /\ inflight' = AfterRead(r)
        /\ IF r = 0 \/ ~isSuccessResponse(r)
           THEN /\ Return(IF r = 0 THEN "io" ELSE "status")
                /\ dataAddr' = dataAddrOnError(dataAddr)
                /\ addrConsumed' = addrConsumed
           ELSE \E a \in 0..NumAddrs :
                  IF a = 0
                  THEN /\ Return("format")
                       /\ dataAddr' = dataAddrOnError(dataAddr)
                       /\ addrConsumed' = addrConsumed
                  ELSE /\ dataAddr' = a /\ addrConsumed' = FALSE
                       /\ Return("nil")
    /\ UNCHANGED <<conn, isAuthenticated, keepaliveStop, keepaliveDone,
                   runtimeVars, warned, netUp, dataConn, readVars, envVars,
                   addrVars>>

handlePasv ==
    /\ Handler
    /\ IF ~requireAuth THEN Fail("notauth") ELSE Send("PASV", "pasv_read")

handlePasv_read == At("pasv_read") /\ Negotiate

handleEpsv ==
    /\ Handler
    /\ IF ~requireAuth THEN Fail("notauth") ELSE Send("EPSV", "epsv_read")

handleEpsv_read == At("epsv_read") /\ Negotiate

\* ------------------------------------------------- list / retr / stor
\* The server ends the transfer it accepted with 150 and sends its closing
\* reply on the control connection.
ServerCloses(q) == IF Answering THEN Append(q, "fg") ELSE q

\* The reply to LIST / RETR / STOR was read: anything but 150 fails.
Opening(next) ==
    /\ \E r \in ReadOutcomes :
        /\ resp' = r
        /\ inflight' = AfterRead(r)
        /\ IF r = 0 THEN Return("io")
           ELSE IF r # 150 THEN Return("status")
           ELSE pc' = next /\ err' = err
    /\ UNCHANGED <<sessionVars, runtimeVars, warned, netUp,
                   dataVars, readVars, envVars,
                   addrVars>>

\* net.Dial("tcp", conn.dataAddr) connects or fails.
Dial(next) ==
    /\ \/ /\ dataConn' = "open" /\ addrConsumed' = TRUE
          /\ pc' = next /\ err' = err
          /\ inflight' = inflight
       \/ /\ CanWrite
          /\ inflight' = ServerCloses(inflight)
          /\ Return("dial")
          /\ UNCHANGED dataVars
    /\ UNCHANGED <<sessionVars, runtimeVars, resp, warned, netUp,
                   readVars, envVars,
                   addrVars>>

\* The data connection was drained or fed. On an error the handler returns
\* (after: the state its deferred calls leave the data connection in);
\* otherwise CloseWrite and CloseRead are called.
Transfer(next, after, canFailLocally) ==
    /\ CanWrite
    /\ inflight' = ServerCloses(inflight)
    /\ \/ /\ dataConn' = "shut"
          /\ pc' = next /\ err' = err
       \/ /\ dataConn' = after
          /\ Return("dataio")
       \/ /\ canFailLocally
          /\ dataConn' = after
          /\ Return("localio")
    /\ UNCHANGED <<sessionVars, runtimeVars, resp, warned, netUp,
                   addrConsumed, readVars, envVars,
                   addrVars>>

\* strings.HasPrefix(resp, "226") and strings.HasPrefix(resp, "426")
isComplete(r) == r = 226
isAborted(r) == r = 426

\* The closing status: conn.readResponse() and the prefix checks.
Closing(after) ==
    /\ \E r \in ReadOutcomes :
        /\ resp' = r
        /\ inflight' = AfterRead(r)
        /\ IF r = 0 THEN Return("io") /\ warned' = warned
           ELSE IF isComplete(r) THEN Return("nil") /\ warned' = warned
           ELSE IF isAborted(r) THEN Return("nil") /\ warned' = TRUE
           ELSE Return("status") /\ warned' = warned
    /\ dataConn' = after
    /\ UNCHANGED <<sessionVars, runtimeVars, netUp, addrConsumed,
                   readVars, envVars,
                   addrVars>>

handleList ==
    /\ Handler
    /\ IF ~requireAuth THEN Fail("notauth")
       ELSE IF noDataAddr THEN Fail("nodata")
       ELSE Send("LIST", "list_cmd")

handleList_open == At("list_cmd") /\ Opening("list_dial")
handleList_dial == At("list_dial") /\ Dial("list_data")
handleList_data == At("list_data") /\ Transfer("list_close", "closed", FALSE)
handleList_close == At("list_close") /\ Closing("closed")

\* handleStor with the local file opened only after the STOR line was
\* written.
handleStor_openLate(hasArg) ==
    /\ Handler
    /\ IF ~hasArg THEN Fail("noarg_stor")
       ELSE IF ~requireAuth THEN Fail("notauth")
       ELSE IF noDataAddr THEN Fail("nodata")
       ELSE \/ /\ CanWrite
               /\ inflight' = Written(inflight, "fg")
               /\ Return("localio")
               /\ UNCHANGED <<sessionVars, runtimeVars, resp, warned, netUp,
                              dataVars, readVars, envVars, addrVars>>
            \/ Send("STOR", "stor_cmd")

\* os.Open(filename) may fail before anything is sent. dataConn is never
\* closed by handleStor.
handleStor(hasArg) ==
    /\ Handler
    /\ IF ~hasArg THEN Fail("noarg_stor")
       ELSE IF ~requireAuth THEN Fail("notauth")
       ELSE IF noDataAddr THEN Fail("nodata")
       ELSE \/ Fail("localio")
            \/ Send("STOR", "stor_cmd")

handleStor_open == At("stor_cmd") /\ Opening("stor_dial")
handleStor_dial == At("stor_dial") /\ Dial("stor_data")
handleStor_data == At("stor_data") /\ Transfer("stor_close", "open", FALSE)
handleStor_close == At("stor_close") /\ Closing("shut")

handleRetr(hasArg) ==
    /\ Handler
    /\ IF ~hasArg THEN Fail("noarg_retr")
       ELSE IF ~requireAuth THEN Fail("notauth")
       ELSE IF noDataAddr THEN Fail("nodata")
       ELSE Send("SIZE", "retr_size")

\* getFileSize returned (a size or an error, which is only a warning) and
\* the RETR line is written.
handleRetr_size ==
    /\ At("retr_size")
    /\ \E r \in ReadOutcomes :
        /\ inflight' = Written(AfterRead(r), "fg")
        /\ pc' = "retr_cmd"
    /\ UNCHANGED <<sessionVars, runtimeVars, resp, err, warned,
                   netUp, dataVars, readVars, envVars,
                   addrVars>>

handleRetr_open == At("retr_cmd") /\ Opening("retr_dial")
handleRetr_dial == At("retr_dial") /\ Dial("retr_data")
\* os.Create(filename) may fail after the dial.
handleRetr_data == At("retr_data") /\ Transfer("retr_close", "closed", TRUE)
handleRetr_close == At("retr_close") /\ Closing("closed")

\* ------------------------------------------------------------ handleExit
handleExit ==
    /\ Handler
    /\ Send("QUIT", "quit_read")

\* The QUIT reply: on success conn.Close() and then os.Exit(0), which runs
\* no deferred call; otherwise the handler returns through its deferred
\* conn.stopKeepAlive().
handleExit_read ==
    /\ At("quit_read")
    /\ \E r \in ReadOutcomes :
        /\ resp' = r
        /\ inflight' = AfterRead(r)
        /\ IF r = 0 \/ ~isSuccessResponse(r)
           THEN /\ pc' = "quit_stop"
                /\ err' = (IF r = 0 THEN "io" ELSE "status")
                /\ conn' = conn
           ELSE /\ pc' = "quit_exit" /\ err' = err
                /\ conn' = "closed"
    /\ UNCHANGED <<isAuthenticated, dataAddr, keepaliveStop, keepaliveDone,
                   runtimeVars, warned, netUp, dataVars, readVars, envVars,
                   addrVars>>

handleExit_exit ==
    /\ At("quit_exit")
    /\ proc' = "exited"
    /\ UNCHANGED <<sessionVars, chans, loops, nLoops, driverVars, netVars,
                   dataVars, readVars, envVars,
                   addrVars>>

\* stopKeepAlive: nothing to do for a nil channel; close(f.keepaliveStop)
\* panics on a closed channel.
stopKeepAlive ==
    /\ At("quit_stop")
    /\ IF keepaliveStop = 0
       THEN /\ pc' = "done"
            /\ UNCHANGED <<chans, proc>>
       ELSE IF chans[keepaliveStop] = "closed"
       THEN /\ proc' = "panicked"
            /\ UNCHANGED <<chans, pc>>
       ELSE /\ chans' = [chans EXCEPT ![keepaliveStop] = "closed"]
            /\ pc' = "quit_wait"
            /\ proc' = proc
    /\ UNCHANGED <<sessionVars, loops, nLoops, resp, err, warned,
                   netVars, dataVars, readVars, envVars,
                   addrVars>>

\* <-f.keepaliveDone
stopKeepAlive_wait ==
    /\ At("quit_wait")
    /\ chans[keepaliveDone] = "closed"
    /\ pc' = "done"
    /\ UNCHANGED <<sessionVars, runtimeVars, resp, err, warned,
                   netVars, dataVars, readVars, envVars,
                   addrVars>>

\* ------------------------------------------------------ the whole program
\* No decoder is under study: the variables of the decoders rest.
NoResult == [kind |-> "none", addr |-> <<>>]
AddrIdle ==
    /\ input = <<>> /\ peer = <<>> /\ apc = "idle"
    /\ result = NoResult /\ storedAddr = <<>>

\* NewFTPConnection has connected; the server's greeting is on its way.
SessionInit ==
    /\ conn = "open" /\ isAuthenticated = FALSE /\ dataAddr = 0
    /\ keepaliveStop = 0 /\ keepaliveDone = 0
    /\ chans = [c \in ChanIds |-> "nil"]
    /\ loops = [k \in LoopIds |-> NoLoop]
    /\ nLoops = 0 /\ proc = "running"
    /\ pc = "welcome"
    /\ resp = 0 /\ err = "nil" /\ warned = FALSE
    /\ inflight = <<"fg">> /\ netUp = TRUE
    /\ dataConn = "none" /\ addrConsumed = FALSE

Init ==
    /\ SessionInit
    /\ readFaults = FALSE /\ peerSilent = FALSE
    /\ stream = <<>> /\ rpos = 0 /\ rpc = "idle" /\ code = <<>>
    /\ fullResponse = <<>>
    /\ AddrIdle

Driver ==
    \/ StartREPL_welcome
    \/ StartREPL_unknown
    \/ StartREPL_eof
    \/ StartREPL_loop

Handlers ==
    \/ handleAuthenticate \/ handleAuthenticate_user \/ handleAuthenticate_pass
    \/ handlePWD \/ handlePWD_read
    \/ handleCdup \/ handleCdup_read
    \/ (\E a \in BOOLEAN : handleCWD(a)) \/ handleCWD_read
    \/ handleStat \/ handleStat_read
    \/ handleHelp \/ handleHelp_read
    \/ handleHelpMenu
    \/ handlePasv \/ handlePasv_read
    \/ handleEpsv \/ handleEpsv_read
    \/ handleList \/ handleList_open \/ handleList_dial \/ handleList_data
    \/ handleList_close
    \/ (\E a \in BOOLEAN : handleStor(a)) \/ handleStor_open \/ handleStor_dial \/ handleStor_data
    \/ handleStor_close
    \/ (\E a \in BOOLEAN : handleRetr(a)) \/ handleRetr_size \/ handleRetr_open \/ handleRetr_dial
    \/ handleRetr_data \/ handleRetr_close
    \/ (\E a \in BOOLEAN : handleSize(a)) \/ handleSize_read
    \/ handleExit \/ handleExit_read \/ handleExit_exit
    \/ stopKeepAlive \/ stopKeepAlive_wait

KeepAlive ==
    \E k \in LoopIds :
        \/ KeepAliveBegin(k)
        \/ KeepAliveTick(k)
        \/ KeepAliveRead(k)
        \/ KeepAliveStopped(k)

Next == Driver \/ Handlers \/ KeepAlive \/ NetDrop

Spec == Init /\ [][Next]_vars

\* The same program on a transport whose reads may fail without the stream
\* having ended.
InitFaulty ==
    /\ SessionInit
    /\ readFaults = TRUE /\ peerSilent = FALSE
    /\ stream = <<>> /\ rpos = 0 /\ rpc = "idle" /\ code = <<>>
    /\ fullResponse = <<>>
    /\ AddrIdle

SpecFaulty == InitFaulty /\ [][Next]_vars

\* The same program with a peer that may fall silent while the connection
\* stays up (a hung server, a path that drops packets): the replies it had
\* already sent still arrive, no other reply ever does, and no read or
\* write reports an error. The code sets no deadline on f.conn, so
\* ReadString waits.
PeerStalls ==
    /\ proc = "running" /\ netUp /\ ~peerSilent
    /\ peerSilent' = TRUE
    /\ \E n \in 0..Len(inflight) : inflight' = SubSeq(inflight, 1, n)
    /\ UNCHANGED <<sessionVars, runtimeVars, driverVars, netUp, readFaults,
                   dataVars, readVars, addrVars>>

NextSilent == Next \/ PeerStalls

SpecSilent == Init /\ [][NextSilent]_vars

\* ------------------------------------------------ readResponse, by lines
\* Lines as bufio's ReadString('\n') returns them: strings of characters
\* ending in the delimiter.
ReplyCodes == {<<"2", "1", "1">>, <<"2", "2", "6">>}
ReadLines ==
    {c \o <<sep, "x", "\n">> : c \in ReplyCodes, sep \in {"-", " "}}
        \cup {<<"2", "2", "6", "\n">>, <<"x", "\n">>}

RECURSIVE StreamsUpTo(_)
StreamsUpTo(n) ==
    IF n = 0 THEN {<<>>}
    ELSE LET shorter == StreamsUpTo(n - 1) IN
         shorter \cup {Append(st, ln) : st \in shorter, ln \in ReadLines}

\* line[3] == '-' with len(line) >= 4 (Go indexes from 0).
isMultiline(ln) == Len(ln) >= 4 /\ ln[4] = "-"

\* The closing test without the check of the fourth character.
isLastLine_anySeparator(ln, cd) == Len(ln) >= 4 /\ SubSeq(ln, 1, 3) = cd

\* len(line) >= 4 && line[:3] == code && line[3] == ' '
isLastLine(ln, cd) == Len(ln) >= 4 /\ SubSeq(ln, 1, 3) = cd /\ ln[4] = " "

\* f.reader.ReadString('\n') has a line to return (otherwise: io.EOF).
HasLine == rpos < Len(stream)

\* The first ReadString and the multi-line test.
readResponse_first ==
    /\ rpc = "first"
    /\ IF ~HasLine
       THEN /\ rpc' = "err"
            /\ UNCHANGED <<rpos, code, fullResponse>>
       ELSE LET line == stream[rpos + 1] IN
            /\ rpos' = rpos + 1
            /\ fullResponse' = fullResponse \o line
            /\ IF isMultiline(line)
               THEN code' = SubSeq(line, 1, 3) /\ rpc' = "multi"
               ELSE code' = code /\ rpc' = "done"
    /\ UNCHANGED <<sessionVars, runtimeVars, driverVars, netVars, dataVars,
                   stream, envVars,
                   addrVars>>

\* One turn of the for loop.
readResponse_loop ==
    /\ rpc = "multi"
    /\ IF ~HasLine
       THEN /\ rpc' = "err"
            /\ UNCHANGED <<rpos, fullResponse>>
       ELSE LET line == stream[rpos + 1] IN
            /\ rpos' = rpos + 1
            /\ fullResponse' = fullResponse \o line
            /\ rpc' = IF isLastLine(line, code) THEN "done" ELSE "multi"
    /\ UNCHANGED <<sessionVars, runtimeVars, driverVars, netVars, dataVars,
                   stream, code, envVars,
                   addrVars>>

\* What readResponse returns as text: the builder, or "" with an error.
Returned == IF rpc = "done" THEN fullResponse ELSE <<>>

InitRead ==
    /\ SessionInit
    /\ readFaults = FALSE /\ peerSilent = FALSE
    /\ stream \in StreamsUpTo(MaxLines)
    /\ rpos = 0 /\ rpc = "first" /\ code = <<>> /\ fullResponse = <<>>
    /\ AddrIdle

NextRead == readResponse_first \/ readResponse_loop

SpecRead == InitRead /\ [][NextRead]_vars

\* ------------------------------------------- parseAddr and parseEPSVAddr
\* strings.Index for a one-character separator, counted from 1: 0 when the
\* character does not occur (Go: -1, and positions from 0).
Index(str, ch) ==
    IF \E i \in 1..Len(str) : str[i] = ch
    THEN CHOOSE i \in 1..Len(str) :
            str[i] = ch /\ \A j \in 1..(i - 1) : str[j] # ch
    ELSE 0

\* strings.Cut(str, ch)
Cut(str, ch) ==
    LET i == Index(str, ch) IN
    IF i = 0 THEN [found |-> FALSE, before |-> str, after |-> <<>>]
    ELSE [found |-> TRUE, before |-> SubSeq(str, 1, i - 1),
          after |-> SubSeq(str, i + 1, Len(str))]

\* strings.Split(str, ch): the empty string gives one empty field.
RECURSIVE Split(_, _)
Split(str, ch) ==
    LET i == Index(str, ch) IN
    IF i = 0 THEN <<str>>
    ELSE <<SubSeq(str, 1, i - 1)>> \o Split(SubSeq(str, i + 1, Len(str)), ch)

\* strings.Join(parts, sep)
RECURSIVE Join(_, _)
Join(parts, sep) ==
    IF parts = <<>> THEN <<>>
    ELSE IF Len(parts) = 1 THEN parts[1]
    ELSE parts[1] \o sep \o Join(Tail(parts), sep)

DigitVal ==
    [c \in {"0", "1", "2", "3", "4", "5", "6", "7", "8", "9"} |->
        CASE c = "0" -> 0 [] c = "1" -> 1 [] c = "2" -> 2 [] c = "3" -> 3
          [] c = "4" -> 4 [] c = "5" -> 5 [] c = "6" -> 6 [] c = "7" -> 7
          [] c = "8" -> 8 [] c = "9" -> 9]
IsDigits(str) == str # <<>> /\ \A i \in 1..Len(str) : str[i] \in DOMAIN DigitVal

RECURSIVE DigitsValue(_)
DigitsValue(str) ==
    IF str = <<>> THEN 0
    ELSE 10 * DigitsValue(SubSeq(str, 1, Len(str) - 1)) + DigitVal[str[Len(str)]]

\* strconv.Atoi: an optional sign, then one or more decimal digits (the
\* numbers of the model are far from the 64-bit range).
Atoi(str) ==
    LET signed == str # <<>> /\ str[1] \in {"+", "-"}
        digits == IF signed THEN Tail(str) ELSE str
    IN  IF ~IsDigits(digits) THEN [ok |-> FALSE, val |-> 0]
        ELSE [ok |-> TRUE,
              val |-> IF signed /\ str[1] = "-" THEN 0 - DigitsValue(digits)
                      ELSE DigitsValue(digits)]

\* fmt's %d
RECURSIVE Digits(_)
Digits(n) ==
    LET last == CHOOSE c \in DOMAIN DigitVal : DigitVal[c] = n % 10 IN
    IF n < 10 THEN <<last>> ELSE Digits(n \div 10) \o <<last>>
Itoa(n) == IF n < 0 THEN <<"-">> \o Digits(0 - n) ELSE Digits(n)

FormatError == [kind |-> "error", addr |-> <<>>]
Address(text) == [kind |-> "addr", addr |-> text]
\* A slice expression out of range: the goroutine panics.
Panic == [kind |-> "panic", addr |-> <<>>]

\* parseAddr: the four octets are checked and joined as written, the two
\* port fields are only parsed.
parseAddr(pasvResp) ==
    LET open == Cut(pasvResp, "(") IN
    IF ~open.found THEN FormatError
    ELSE LET close == Cut(open.after, ")") IN
    IF ~close.found THEN FormatError
    ELSE LET parts == Split(close.before, ",") IN
    IF Len(parts) # 6 THEN FormatError
    ELSE IF \E i \in 1..4 :
               \/ ~Atoi(parts[i]).ok
               \/ Atoi(parts[i]).val < 0 \/ Atoi(parts[i]).val > 255
    THEN FormatError
    ELSE LET portH == Atoi(parts[5])
             portL == Atoi(parts[6])
         IN  IF ~portH.ok \/ ~portL.ok THEN FormatError
             ELSE Address(Join(SubSeq(parts, 1, 4), <<".">>) \o <<":">>
                          \o Itoa(portH.val * 256 + portL.val))

\* The port of an EPSV payload taken from the field before the right one.
epsvPort_third(parts) == parts[3]

\* port := parts[3] (Go counts from 0)
epsvPort(parts) == parts[4]

\* parseEPSVAddr: epsvResp[start+1 : end] panics when the first ")" stands
\* before the first "(".
parseEPSVAddr(epsvResp, host) ==
    LET start == Index(epsvResp, "(")
        end == Index(epsvResp, ")")
    IN  IF start = 0 \/ end = 0 THEN FormatError
        ELSE IF start > end THEN Panic
        ELSE LET parts == Split(SubSeq(epsvResp, start + 1, end - 1), "|") IN
             IF Len(parts) < 4 THEN FormatError
             ELSE Address(host \o <<":">> \o epsvPort(parts))

\* The replies the decoders are tried on. A field is a decimal number, plain
\* or with a leading zero or a sign, a number past 255, a word or nothing;
\* a payload has 3 to MaxFields fields, all alike but for two of them.
FieldTexts ==
    {<<"1">>, <<"0">>, <<"0", "1">>, <<"2", "5", "5">>, <<"2", "5", "6">>,
     <<"+", "1">>, <<"-", "1">>, <<"x">>, <<>>}
Payloads ==
    {Join([k \in 1..n |-> IF k = i THEN a ELSE IF k = j THEN b ELSE dflt],
          <<sep>>) :
        n \in 3..MaxFields, i \in 1..MaxFields, j \in 1..MaxFields,
        a \in FieldTexts, b \in FieldTexts,
        dflt \in {<<"1">>, <<>>}, sep \in {",", "|"}}
\* "E" stands for the text around the payload.
PlainPayloads ==
    {Join([k \in 1..n |-> <<"1">>], <<sep>>) :
        n \in 3..MaxFields, sep \in {",", "|"}}
Replies ==
    {<<"E">> \o <<"(">> \o p \o <<")">> \o <<"E">> : p \in Payloads}
      \cup {<<"E">> \o p \o <<")">> : p \in PlainPayloads}
      \cup {<<"(">> \o p : p \in PlainPayloads}
      \cup {<<")">> \o p \o <<"(">> : p \in PlainPayloads}
      \cup {p : p \in PlainPayloads}
Hosts == {<<"h">>, <<"g", "g">>}

\* handlePasv from the decoding on: addr, err := parseAddr(resp), and
\* conn.dataAddr = addr unless err.
handlePasv_decode ==
    /\ apc = "start"
    /\ apc' = "pasv"
    /\ result' = parseAddr(input)
    /\ storedAddr' = IF result'.kind = "addr" THEN result'.addr ELSE storedAddr
    /\ UNCHANGED <<sessionVars, runtimeVars, driverVars, netVars, envVars,
                   dataVars, readVars, input, peer>>

\* handleEpsv from the decoding on.
handleEpsv_decode ==
    /\ apc = "start"
    /\ apc' = "epsv"
    /\ result' = parseEPSVAddr(input, peer)
    /\ storedAddr' = IF result'.kind = "addr" THEN result'.addr ELSE storedAddr
    /\ UNCHANGED <<sessionVars, runtimeVars, driverVars, netVars, envVars,
                   dataVars, readVars, input, peer>>

InitAddr ==
    /\ SessionInit
    /\ readFaults = FALSE /\ peerSilent = FALSE
    /\ stream = <<>> /\ rpos = 0 /\ rpc = "idle" /\ code = <<>>
    /\ fullResponse = <<>>
    /\ input \in Replies /\ peer \in Hosts
    /\ apc = "start" /\ result = NoResult /\ storedAddr = <<>>

NextAddr == handlePasv_decode \/ handleEpsv_decode

SpecAddr == InitAddr /\ [][NextAddr]_vars

\* ================================================================ claims

\* ---- C1
\* C1: control-channel exchanges are one at a time: the keep-alive probe
\* and a foreground handler are never both between the write of a command
\* line and the read of its reply (for a transfer: of its closing status).
FgExchangePcs ==
    {"auth_user", "auth_pass", "pwd_read", "cdup_read", "cwd_read",
     "stat_read", "help_read", "size_read", "pasv_read", "epsv_read",
     "list_cmd", "list_dial", "list_data", "list_close",
     "stor_cmd", "stor_dial", "stor_data", "stor_close",
     "retr_size", "retr_cmd", "retr_dial", "retr_data", "retr_close",
     "quit_read"}
FgInExchange == pc \in FgExchangePcs
KaInExchange == \E k \in LoopIds : loops[k].pc = "probe"
C1_OneExchangeAtATime == ~(FgInExchange /\ KaInExchange)

\* ---- C2
\* C2: the control socket is never closed, and the process never ended by
\* quit, while a keep-alive goroutine is still running or probing.
C2_LoopStoppedBeforeClose ==
    (conn = "closed" \/ proc = "exited") => \A k \in LoopIds : ~LoopRunning(k)

\* ---- C3
\* C3: stopKeepAlive on a loop that is already stopped (its stop channel
\* closed by an earlier stop, or the goroutine gone after a probe failure)
\* is a no-op: it does not panic, does not block and leaves the session
\* as it was.
AlreadyStopped ==
    /\ keepaliveStop # 0
    /\ chans[keepaliveStop] = "closed" \/ chans[keepaliveDone] = "closed"
C3_StopIdempotent ==
    [][(stopKeepAlive /\ AlreadyStopped) =>
         /\ proc' = "running"
         /\ UNCHANGED sessionVars
         /\ pc' = "quit_wait" => chans'[keepaliveDone] = "closed"]_vars

\* ---- C4
\* C4: after a probe failed and its loop stopped, the session ends without
\* the operator typing anything. A finite run refutes it by reaching a
\* state where a probe has failed, the session is still running and every
\* step the program could take needs a line of input (or the network).
ProbeFailed == \E k \in LoopIds : loops[k].pc = "failed"
\* The steps that need no operator input: the driver outside the prompt,
\* the handlers past their entry, and the keep-alive goroutines.
Unprompted ==
    \/ StartREPL_welcome \/ StartREPL_loop
    \/ (pc # "prompt" /\ Handlers)
    \/ KeepAlive
C4_ConnectionLossEndsSession ==
    (ProbeFailed /\ proc = "running") => ENABLED Unprompted

\* ---- C5
\* C5: readResponse framing. If the first line's fourth character is not a
\* hyphen exactly one line is consumed; otherwise lines are consumed up to
\* and including the first later line that starts with the first line's
\* three-character code followed by a space, and no line closes the block
\* before it; the text is the consumed lines concatenated in order. The
\* read fails only when the stream ends before that.
RECURSIVE Concat(_, _)
Concat(st, n) == IF n = 0 THEN <<>> ELSE Concat(st, n - 1) \o st[n]
FirstIsMulti == Len(stream[1]) >= 4 /\ stream[1][4] = "-"
ClosesAt(i) ==
    /\ Len(stream[i]) >= 4
    /\ \A j \in 1..3 : stream[i][j] = stream[1][j]
    /\ stream[i][4] = " "
C5_Framing ==
    /\ rpc = "done" =>
        /\ rpos >= 1
        /\ ~FirstIsMulti => rpos = 1
        /\ FirstIsMulti => (rpos > 1 /\ ClosesAt(rpos))
        /\ Returned = Concat(stream, rpos)
    /\ rpc \in {"multi", "done"} =>
        \A i \in 2..(rpos - 1) : ~ClosesAt(i)
    /\ rpc = "multi" => (FirstIsMulti /\ (rpos > 1 => ~ClosesAt(rpos)))
    /\ rpc = "err" =>
        /\ rpos = Len(stream)
        /\ Returned = <<>>
        /\ stream # <<>> =>
             (FirstIsMulti /\ \A i \in 2..Len(stream) : ~ClosesAt(i))

\* A three-line reply whose middle line is a decoy (the code, then a
\* hyphen) was read to its closing line.
C5_Witness ==
    /\ rpc = "done" /\ rpos = 3
    /\ SubSeq(stream[2], 1, 4) = SubSeq(stream[1], 1, 4)
    /\ Len(stream) = 3

\* ---- C6
\* C6: a call of authenticate sets the authentication flag and starts the
\* keep-alive loop exactly when USER was answered 331 and PASS was then
\* answered with a 2xx status; otherwise it returns an error and neither
\* sets the flag nor starts a loop.
AuthEffects == <<isAuthenticated, nLoops, loops, chans, keepaliveStop, keepaliveDone>>
C6_AuthIffBothSteps ==
    [][/\ (pc = "auth_user" /\ pc' # pc) =>
            /\ UNCHANGED AuthEffects
            /\ IF resp' = 331 THEN pc' = "auth_pass"
               ELSE pc' = "done" /\ err' # "nil"
       /\ (pc = "auth_pass" /\ pc' # pc) =>
            /\ pc' = "done"
            /\ IF resp' \in 200..299
               THEN /\ err' = "nil" /\ isAuthenticated'
                    /\ nLoops' = nLoops + 1
                    /\ loops'[nLoops'].pc = "spawned"
               ELSE err' # "nil" /\ UNCHANGED AuthEffects
       /\ pc' = "auth_pass" => (pc = "auth_pass" \/ pc = "auth_user")
       /\ (isAuthenticated' # isAuthenticated \/ nLoops' # nLoops) =>
            pc = "auth_pass"]_vars

\* authenticate has just succeeded: the PASS reply is a success, the flag
\* is set and the new goroutine has not run yet.
C6_Witness ==
    /\ pc = "done" /\ err = "nil" /\ resp \in 200..299
    /\ isAuthenticated /\ nLoops = 1 /\ loops[1].pc = "spawned"

\* ---- C7
\* C7: while the session is not authenticated, each of pwd, cwd, cdup,
\* pasv, epsv, list, retr, stor, size, stat and serverhelp fails at once
\* with the not-authenticated error, writes nothing on the control
\* connection, opens no data connection and changes no session state.
ServerCommandEntry ==
    \/ handlePWD \/ handleCdup \/ handleStat \/ handleHelp
    \/ handlePasv \/ handleEpsv \/ handleList
    \/ \E a \in BOOLEAN : handleCWD(a) \/ handleSize(a) \/ handleRetr(a) \/ handleStor(a)
C7_UnauthenticatedFailsAtOnce ==
    [][(~isAuthenticated /\ ServerCommandEntry) =>
         /\ pc' = "done" /\ err' = "notauth"
         /\ inflight' = inflight
         /\ UNCHANGED <<sessionVars, dataVars>>]_vars

\* ---- C8
\* C8 as stated: list, retr or stor on an authenticated session without a
\* data address fails at once with the no-data-channel error, writes no
\* command line and dials no data connection.
TransferEntry(a) == handleList \/ handleRetr(a) \/ handleStor(a)
C8_Original ==
    [][(isAuthenticated /\ dataAddr = 0 /\ \E a \in BOOLEAN : TransferEntry(a)) =>
         /\ pc' = "done" /\ err' = "nodata"
         /\ inflight' = inflight
         /\ UNCHANGED dataVars]_vars

\* C8 as amended: such a command fails at once, writes no command line and
\* dials no data connection; the error is the no-data-channel error, except
\* that retr and stor without a filename fail with the missing-argument
\* error (that check comes first).
C8_NoDataAddressFailsAtOnce ==
    [][\A a \in BOOLEAN :
         (isAuthenticated /\ dataAddr = 0 /\ TransferEntry(a)) =>
            /\ pc' = "done"
            /\ err' = "nodata" \/ (~a /\ err' \in {"noarg_retr", "noarg_stor"})
            /\ inflight' = inflight
            /\ UNCHANGED <<sessionVars, dataVars>>]_vars

\* A command was refused for want of a data address on an authenticated
\* session, with nothing written and nothing dialed.
C8_Witness ==
    /\ pc = "done" /\ err = "nodata"
    /\ isAuthenticated /\ dataAddr = 0
    /\ inflight = <<>> /\ dataConn = "none"

\* ---- C9
\* C9: every data connection a transfer opens uses a negotiated address
\* that no earlier data connection has consumed.
TransferDial == handleList_dial \/ handleStor_dial \/ handleRetr_dial
C9_AddressUsedOnce ==
    [][(TransferDial /\ dataConn' = "open") =>
         (dataAddr # 0 /\ ~addrConsumed)]_vars

\* ---- C10
\* C10: the closing status of list, retr and stor: a success-class reply
\* returns success, 426 returns success with a warning printed, any other
\* status returns an error.
TransferClosing == handleList_close \/ handleStor_close \/ handleRetr_close
C10_ClosingStatus ==
    [][(TransferClosing /\ resp' # 0) =>
         IF resp' \in 200..299 THEN err' = "nil" /\ ~warned'
         ELSE IF resp' = 426 THEN err' = "nil" /\ warned'
         ELSE err' # "nil"]_vars

\* ---- C11
\* C11: no command failure ends the session: a handler that has failed (its
\* error is set) never ends the process in a later step of its own, and
\* every handler that returns leaves the control connection open and the
\* process running, so that the driver goes back to its prompt.
C11_FailureKeepsSession ==
    [][/\ (Handlers /\ err # "nil") => proc' = "running"
       /\ (Handlers /\ pc' = "done") => (conn' = "open" /\ proc' = "running")]_vars

\* ---- C12
\* C12: at the end of the input stream the read-dispatch loop terminates and
\* the session ends. A finite run refutes it by reaching a state where the
\* driver stands at the end of its input and no driver step leaves the loop.
C12_EofEndsSession ==
    (pc = "eof" /\ proc = "running") => ENABLED (Driver /\ pc' # "eof")

\* ---- C13
\* C13: legacy passive decoding. For every reply whose first parenthesized
\* group is six comma-separated decimal values h1,h2,h3,h4,p1,p2, each in
\* 0..255, parseAddr returns exactly "h1.h2.h3.h4:P" with P = p1*256 + p2,
\* and handlePasv stores that text as the data address.
HasGroup(str) == Cut(str, "(").found /\ Cut(Cut(str, "(").after, ")").found
GroupFields(str) == Split(Cut(Cut(str, "(").after, ")").before, ",")
\* A decimal value in 0..255: digits only.
IsOctet(field) == IsDigits(field) /\ DigitsValue(field) \in 0..255
SixOctets(str) ==
    /\ HasGroup(str)
    /\ Len(GroupFields(str)) = 6
    /\ \A i \in 1..6 : IsOctet(GroupFields(str)[i])
DottedQuadPort(str) ==
    LET v == [i \in 1..6 |-> Atoi(GroupFields(str)[i]).val] IN
    Itoa(v[1]) \o <<".">> \o Itoa(v[2]) \o <<".">> \o Itoa(v[3]) \o <<".">>
        \o Itoa(v[4]) \o <<":">> \o Itoa(v[5] * 256 + v[6])
IsCanonical(field) == IsDigits(field) /\ (Len(field) > 1 => field[1] # "0")
C13_CanonicalDecoding ==
    (apc = "pasv" /\ SixOctets(input)
                  /\ \A i \in 1..6 : IsCanonical(GroupFields(input)[i])) =>
        /\ result = Address(DottedQuadPort(input))
        /\ storedAddr = DottedQuadPort(input)

\* ---- C14
\* C14: both decoders end with a format error or an address, never a crash,
\* and return an address only for a well-formed payload: legacy, six
\* fields that are all values in 0..255 (a sign is let pass here);
\* extended, parentheses in order, at least four fields and a numeric port
\* field.
IsSignedOctet(field) == Atoi(field).ok /\ Atoi(field).val \in 0..255
WellFormedLegacy(str) ==
    /\ HasGroup(str)
    /\ Len(GroupFields(str)) = 6
    /\ \A i \in 1..6 : IsSignedOctet(GroupFields(str)[i])
Parenthesized(str) == Index(str, "(") # 0 /\ Index(str, "(") < Index(str, ")")
PayloadFields(str) ==
    Split(SubSeq(str, Index(str, "(") + 1, Index(str, ")") - 1), "|")
WellFormedExtended(str) ==
    /\ Parenthesized(str)
    /\ Len(PayloadFields(str)) >= 4
    /\ Atoi(PayloadFields(str)[4]).ok /\ Atoi(PayloadFields(str)[4]).val >= 0
C14_DecodersReject ==
    /\ apc = "pasv" =>
        /\ result.kind \in {"addr", "error"}
        /\ result.kind = "addr" => WellFormedLegacy(input)
    /\ apc = "epsv" =>
        /\ result.kind \in {"addr", "error"}
        /\ result.kind = "addr" => WellFormedExtended(input)

\* ---- C15
\* C15: extended passive decoding. A reply whose parenthesized payload has
\* fewer than four |-delimited fields yields a format error; one with four
\* or more yields the address made of the control connection's peer host
\* and the fourth field, whatever the first three fields hold; handleEpsv
\* stores it.
C15_ExtendedDecoding ==
    (apc = "epsv" /\ Parenthesized(input)) =>
        IF Len(PayloadFields(input)) < 4
        THEN result = FormatError /\ storedAddr = <<>>
        ELSE /\ result = Address(peer \o <<":">> \o PayloadFields(input)[4])
             /\ storedAddr = result.addr

\* A payload of at least four fields whose first field is a word and whose
\* fourth field is 255 was decoded to an address.
C15_Witness ==
    /\ apc = "epsv" /\ result.kind = "addr"
    /\ Parenthesized(input)
    /\ Len(PayloadFields(input)) >= 4
    /\ PayloadFields(input)[1] = <<"x">>
    /\ PayloadFields(input)[4] = <<"2", "5", "5">>

\* ---- C16
\* C16: at every moment at most one keep-alive goroutine is running, and a
\* goroutine that is past its start is the one stopKeepAlive will wait for.
RunningLoops == {k \in LoopIds : LoopRunning(k)}
C16_AtMostOneLoop ==
    /\ Cardinality(RunningLoops) <= 1
    /\ \A k \in LoopIds :
         loops[k].pc \in {"select", "probe"} => loops[k].done = keepaliveDone

\* ---- C17
\* C17: list, retr and stor read the final status from the control
\* connection only after the data connection is fully closed.
C17_StatusAfterClose ==
    [][TransferClosing => dataConn = "closed"]_vars

\* ---- C18
\* C18: when a command returns, the data connection it opened (if any) is
\* fully closed.
C18_NoDataConnLeft ==
    pc = "done" => dataConn \in {"none", "closed"}

\* ---- C19
\* C19: a probe failure that is not clearly fatal (the peer is there and the
\* control connection is open) does not tear down the keep-alive loop.
C19_AmbiguousFailureKeepsLoop ==
    [][\A k \in LoopIds :
         (KeepAliveRead(k) /\ netUp /\ conn = "open") =>
            loops'[k].pc # "failed"]_vars

\* ---- C20
\* C20: a pasv or epsv command that fails (not authenticated, transport
\* error, non-success status, address that cannot be decoded) leaves the
\* session state as it was: the stored data address and the authentication
\* flag in particular.
PassiveStep == handlePasv \/ handlePasv_read \/ handleEpsv \/ handleEpsv_read
C20_FailedNegotiationKeepsState ==
    [][(PassiveStep /\ err' # "nil") =>
         UNCHANGED <<sessionVars, addrConsumed>>]_vars

\* A negotiation failed at the decoding of a success reply while an address
\* from an earlier negotiation is stored.
C20_Witness ==
    /\ pc = "done" /\ err = "format" /\ resp \in 200..299
    /\ dataAddr # 0

\* ---- C21
\* C21: when stor cannot open the local source file, the handler returns
\* its error having written no command on the control connection and
\* dialed no data connection, and the session state (connection,
\* authentication, stored data address, keep-alive channels and loops) is
\* what it was.
StorStep == \E hasArg \in BOOLEAN : handleStor(hasArg)
C21_OpenFailsBeforeNetwork ==
    [][(StorStep /\ err' = "localio") =>
         UNCHANGED <<sessionVars, runtimeVars, netVars, dataVars>>]_vars

\* stor has returned the error of os.Open: it had an argument, the session
\* was authenticated and held a data address, and no reply was read.
C21_Witness ==
    /\ pc = "done" /\ err = "localio" /\ resp = 0
    /\ isAuthenticated /\ dataAddr # 0 /\ dataConn = "none"

\* ---- C22
\* C22: with a server that sends one reply per command and one closing
\* reply per transfer it accepted with 150, a handler that has returned
\* (with or without an error) leaves no reply to its own command unread on
\* the control connection. The keep-alive loops are at rest (no probe
\* written and unanswered), so every reply in flight is the handler's.
KeepAliveQuiet ==
    /\ \A k \in LoopIds : loops[k].pc # "probe"
    /\ \A i \in 1..Len(inflight) : inflight[i] # "ka"
C22_NoReplyLeftUnread ==
    (proc = "running" /\ pc = "done" /\ KeepAliveQuiet) => inflight = <<>>

\* ---- C23
\* C23: every exchange on the control connection returns by itself, also
\* with a silent server: a foreground handler that waits for a reply, a
\* keep-alive probe that waits for its reply and a stop request that waits
\* for the loop's acknowledgment can each take their next step, or the
\* loop waited for can. A finite run refutes it by reaching a state where
\* one of them waits and nothing but the loss of the connection can end
\* the wait.
FgReadPcs ==
    {"auth_user", "auth_pass", "pwd_read", "cdup_read",
     "cwd_read", "stat_read", "help_read", "size_read", "pasv_read",
     "epsv_read", "list_cmd", "list_close", "stor_cmd", "stor_close",
     "retr_size", "retr_cmd", "retr_close", "quit_read"}
FgReturns ==
    (proc = "running" /\ pc \in FgReadPcs) => ENABLED Handlers
ProbeReturns ==
    \A k \in LoopIds :
        (proc = "running" /\ loops[k].pc = "probe") => ENABLED KeepAliveRead(k)
StopReturns ==
    (proc = "running" /\ pc = "quit_wait") =>
        ENABLED (stopKeepAlive_wait \/ KeepAlive)
C23_ExchangesReturn == FgReturns /\ ProbeReturns /\ StopReturns

====
